---- MODULE Spec2Model ----
(***************************************************************************)
(* Model of bot2.py: the storage operations of the student management page *)
(* (create_student_table, reset_id_sequence, upsert_student_data,          *)
(* update_student_record, delete_student_record, fetch_student_data) and   *)
(* the upload button of main(), run against a PostgreSQL "student" table.  *)
(*                                                                         *)
(* The store is modelled by what the statements of the source do:          *)
(*   - a psycopg2 connection runs its statements in one transaction (tx)   *)
(*     that reaches the table at conn.commit() and is discarded when the   *)
(*     connection is closed without a commit;                              *)
(*   - INSERT .. ON CONFLICT (email) DO UPDATE evaluates the id default    *)
(*     first (nextval is not transactional and is consumed on every        *)
(*     statement), then the NOT NULL constraints, then the arbiter;        *)
(*   - "id INT PRIMARY KEY" has no default: a table made by                *)
(*     create_student_table has no student_id_seq, a table that existed    *)
(*     before (CREATE TABLE IF NOT EXISTS leaves it alone) is the one the  *)
(*     source's setval('student_id_seq', ..) is written for.               *)
(***************************************************************************)
EXTENDS Integers, Sequences, FiniteSets, TLC

\* Bounds of the model.
MaxBatch == 2      \* rows of an uploaded spreadsheet
MaxSeq == 4        \* largest value student_id_seq hands out
MaxOpen == 2       \* connections that may be left open before calls stop

\* The NULL an id column without a default receives.
Null == 0

\* Spreadsheet rows / form values the operations are called with: the columns
\* student_name, age, class, email, phone_number.
rowA == [student_name |-> "A", age |-> 20, class |-> "X", email |-> "a@x.com", phone_number |-> "1"]
rowA2 == [student_name |-> "A2", age |-> 21, class |-> "X", email |-> "a@x.com", phone_number |-> "2"]
rowB == [student_name |-> "B", age |-> 22, class |-> "Y", email |-> "b@x.com", phone_number |-> "2"]
rowB3 == [student_name |-> "B", age |-> 22, class |-> "Y", email |-> "b@x.com", phone_number |-> "3"]

Candidates == { rowA, rowA2, rowB, rowB3 }

\* The argument values held while no update is running.
NoRow == rowA

RECURSIVE SeqsUpTo(_)
SeqsUpTo(n) ==
    IF n = 0 THEN { <<>> }
    ELSE LET shorter == SeqsUpTo(n - 1)
         IN  shorter \cup { Append(s, c) : s \in { t \in shorter : Len(t) = n - 1 }, c \in Candidates }

Batches == SeqsUpTo(MaxBatch)

VARIABLES
    tableExists,   \* the relation student exists
    serial,        \* its id column defaults to nextval('student_id_seq')
    seqNext,       \* the value the next nextval('student_id_seq') returns
    table,         \* committed rows of student
    tx,            \* rows as seen by the open connection's transaction
    open,          \* number of open connections
    fn,            \* function being executed
    pc,            \* position in it
    caller,        \* "delete" while reset_id_sequence runs inside delete_student_record
    df,            \* the batch of upsert_student_data
    i,             \* index of the next row of df
    argId,         \* id argument of update/delete
    argRow,        \* field arguments of update
    msgs,          \* st.success / st.error messages of the current call
    logs,          \* logging.info / logging.error lines of the current call
    raised,        \* an exception left the current call
    result,        \* rows returned by fetch_student_data
    pre,           \* committed rows when the current call began
    prev,          \* the batch of the call before, when that was an upsert
    armed          \* the last delete removed the maximum id and left rows

vars == << tableExists, serial, seqNext, table, tx, open, fn, pc, caller, df, i,
           argId, argRow, msgs, logs, raised, result, pre, prev, armed >>

store == << tableExists, serial, seqNext, table, tx >>
call == << df, i, argId, argRow >>
out == << msgs, logs, raised, result >>

\* ---------------------------------------------------------------- relations

Ids(t) == { r.id : r \in t }
Emails(t) == { r.email : r \in t }
Phones(t) == { r.phone_number : r \in t }

MaxId(t) == CHOOSE m \in Ids(t) : \A n \in Ids(t) : n <= m

MinOf(S) == CHOOSE m \in S : \A n \in S : m <= n

Fields(r) == [student_name |-> r.student_name, age |-> r.age, class |-> r.class,
              email |-> r.email, phone_number |-> r.phone_number]

NewRow(idv, c) == [id |-> idv, student_name |-> c.student_name, age |-> c.age,
                   class |-> c.class, email |-> c.email, phone_number |-> c.phone_number]

\* email VARCHAR(100) UNIQUE, phone_number VARCHAR(15) UNIQUE: r against the other rows.
\* (the same with the UNIQUE on phone_number left out)
UniqueViolationEmailOnly(others, r) == r.email \in Emails(others)

UniqueViolation(others, r) ==
    r.email \in Emails(others) \/ r.phone_number \in Phones(others)

\* id INT PRIMARY KEY.
PrimaryKeyViolation(others, r) == r.id = Null \/ r.id \in Ids(others)

\* ON CONFLICT (email) DO UPDATE SET student_name, age, class, phone_number.
\* (the same with the id overwritten by the proposed row's as well)
DoUpdateNewId(r, c, idv) == NewRow(idv, c)

DoUpdate(r, c, idv) ==
    [r EXCEPT !.student_name = c.student_name, !.age = c.age,
              !.class = c.class, !.phone_number = c.phone_number]

\* The id default of an INSERT that names no id.
IdDefault == IF serial THEN seqNext ELSE Null

\* One INSERT .. ON CONFLICT (email) DO UPDATE on rows t with id default idv.
ExecUpsert(t, c, idv) ==
    IF ~tableExists \/ idv = Null THEN [ok |-> FALSE, rows |-> t]
    ELSE IF c.email \in Emails(t)
    THEN LET r == CHOOSE x \in t : x.email = c.email
             u == DoUpdate(r, c, idv)
         IN  IF UniqueViolation(t \ {r}, u) \/ PrimaryKeyViolation(t \ {r}, u)
             THEN [ok |-> FALSE, rows |-> t]
             ELSE [ok |-> TRUE, rows |-> (t \ {r}) \cup {u}]
    ELSE LET n == NewRow(idv, c)
         IN  IF UniqueViolation(t, n) \/ PrimaryKeyViolation(t, n)
             THEN [ok |-> FALSE, rows |-> t]
             ELSE [ok |-> TRUE, rows |-> t \cup {n}]

\* UPDATE student SET .. WHERE id = idv.
ExecUpdate(t, idv, c) ==
    IF ~tableExists THEN [ok |-> FALSE, rows |-> t]
    ELSE IF idv \notin Ids(t) THEN [ok |-> TRUE, rows |-> t]
    ELSE LET r == CHOOSE x \in t : x.id = idv
             u == NewRow(idv, c)
         IN  IF UniqueViolation(t \ {r}, u)
             THEN [ok |-> FALSE, rows |-> t]
             ELSE [ok |-> TRUE, rows |-> (t \ {r}) \cup {u}]

\* DELETE FROM student WHERE id = idv.
ExecDelete(t, idv) == { r \in t : r.id # idv }

\* SELECT * FROM student ORDER BY id ASC.
RECURSIVE OrderById(_)
OrderById(t) ==
    IF t = {} THEN <<>>
    ELSE LET r == CHOOSE x \in t : \A y \in t : x.id <= y.id
         IN  <<r>> \o OrderById(t \ {r})

\* ---------------------------------------------------------------- calls

Idle == pc = "idle"

\* What every call starts from: nothing shown, nothing logged, no exception.
Begin(f, c) ==
    /\ Idle
    /\ open < MaxOpen
    /\ fn' = f
    /\ caller' = c
    /\ pc' = "conn"
    /\ msgs' = {}
    /\ logs' = {}
    /\ raised' = FALSE
    /\ result' = <<>>
    /\ pre' = table
    /\ UNCHANGED << store, open, armed >>

NoPrev == [valid |-> FALSE, df |-> <<>>]

CallCreate ==
    /\ Begin("create", "none")
    /\ prev' = NoPrev
    /\ UNCHANGED call

CallReset ==
    /\ Begin("reset", "none")
    /\ prev' = NoPrev
    /\ UNCHANGED call

\* main(): the "Upload to Database" button calls upsert_student_data(df).
CallUpsert(d) ==
    /\ Begin("upsert", "main")
    /\ serial => seqNext + Len(d) - 1 <= MaxSeq
    /\ df' = d
    /\ i' = 1
    /\ UNCHANGED << argId, argRow, prev >>

CallUpdate(idv, c) ==
    /\ Begin("update", "none")
    /\ argId' = idv
    /\ argRow' = c
    /\ prev' = NoPrev
    /\ UNCHANGED << df, i >>

CallDelete(idv) ==
    /\ Begin("delete", "none")
    /\ argId' = idv
    /\ prev' = NoPrev
    /\ UNCHANGED << df, i, argRow >>

CallFetch ==
    /\ Begin("fetch", "none")
    /\ prev' = NoPrev
    /\ UNCHANGED call

\* ---------------------------------------------------------------- get_connection

\* psycopg2.connect succeeds: the caller holds a connection with a fresh transaction.
GetConnection ==
    /\ pc = "conn"
    /\ open' = open + 1
    /\ tx' = table
    /\ pc' = "exec"
    /\ UNCHANGED << tableExists, serial, seqNext, table, fn, caller, call, out, pre, prev, armed >>

\* psycopg2.connect fails: logged, shown, None returned; the caller's "if conn" skips its body.
GetConnectionFail ==
    /\ pc = "conn"
    /\ logs' = logs \cup {"Failed to connect to the database"}
    /\ msgs' = msgs \cup {"Failed to connect to the database"}
    /\ pc' = "ret"
    /\ UNCHANGED << store, open, fn, caller, call, raised, result, pre, prev, armed >>

\* ---------------------------------------------------------------- create_student_table

CreateExec ==
    /\ fn = "create" /\ pc = "exec"
    /\ tableExists' = TRUE
    /\ logs' = logs \cup {"Student table created or already exists."}
    /\ pc' = "finally"
    /\ UNCHANGED << serial, seqNext, table, tx, open, fn, caller, call, msgs, raised, result,
                    pre, prev, armed >>

\* ---------------------------------------------------------------- reset_id_sequence

\* SELECT setval('student_id_seq', (SELECT MAX(id) FROM student)): an error when the
\* sequence does not exist, no change when MAX(id) is NULL.
ResetExec ==
    /\ fn = "reset" /\ pc = "exec"
    /\ IF serial
       THEN /\ seqNext' = IF tx = {} THEN seqNext ELSE MaxId(tx) + 1
            /\ logs' = logs \cup {"Sequence reset to the maximum id value."}
       ELSE /\ seqNext' = seqNext
            /\ logs' = logs \cup {"Error resetting ID sequence"}
    /\ pc' = "finally"
    /\ UNCHANGED << tableExists, serial, table, tx, open, fn, caller, call, msgs, raised,
                    result, pre, prev, armed >>

\* ---------------------------------------------------------------- upsert_student_data

\* One pass of "for _, row in df.iterrows(): cursor.execute(query, ...)".
UpsertRow ==
    /\ fn = "upsert" /\ pc = "exec" /\ i <= Len(df)
    /\ LET res == ExecUpsert(tx, df[i], IdDefault)
       IN  /\ seqNext' = IF tableExists /\ serial THEN seqNext + 1 ELSE seqNext
           /\ IF res.ok
              THEN /\ tx' = res.rows
                   /\ i' = i + 1
                   /\ pc' = "exec"
                   /\ UNCHANGED << msgs, logs >>
              ELSE /\ logs' = logs \cup {"Error uploading student data"}
                   /\ msgs' = msgs \cup {"Error uploading student data"}
                   /\ pc' = "finally"
                   /\ UNCHANGED << tx, i >>
    /\ UNCHANGED << tableExists, serial, table, open, fn, caller, df, argId, argRow, raised,
                    result, pre, prev, armed >>

\* conn.commit() after the loop.
UpsertCommit ==
    /\ fn = "upsert" /\ pc = "exec" /\ i > Len(df)
    /\ table' = tx
    /\ logs' = logs \cup {"Student data uploaded successfully."}
    /\ armed' = (armed /\ Ids(tx) \subseteq Ids(table))
    /\ pc' = "finally"
    /\ UNCHANGED << tableExists, serial, seqNext, tx, open, fn, caller, call, msgs, raised,
                    result, pre, prev >>

\* main(): st.success after upsert_student_data returned.
MainReport ==
    /\ fn = "main" /\ pc = "report"
    /\ msgs' = msgs \cup {"Data uploaded successfully!"}
    /\ prev' = [valid |-> TRUE, df |-> df]
    /\ df' = <<>>
    /\ i' = 0
    /\ pre' = {}
    /\ fn' = "none"
    /\ caller' = "none"
    /\ pc' = "idle"
    /\ UNCHANGED << store, open, argId, argRow, logs, raised, result, armed >>

\* ---------------------------------------------------------------- update_student_record

UpdateExec ==
    /\ fn = "update" /\ pc = "exec"
    /\ LET res == ExecUpdate(tx, argId, argRow)
       IN  IF res.ok
           THEN /\ tx' = res.rows
                /\ table' = res.rows
                /\ logs' = logs \cup {"updated successfully."}
                /\ msgs' = msgs \cup {"Record updated successfully!"}
           ELSE /\ logs' = logs \cup {"Error updating student record"}
                /\ msgs' = msgs \cup {"Error updating student record"}
                /\ UNCHANGED << tx, table >>
    /\ pc' = "finally"
    /\ UNCHANGED << tableExists, serial, seqNext, open, fn, caller, call, raised, result,
                    pre, prev, armed >>

\* ---------------------------------------------------------------- delete_student_record

\* execute, commit, st.success; reset_id_sequence() is the next statement of the try.
DeleteExec ==
    /\ fn = "delete" /\ pc = "exec"
    /\ IF tableExists
       THEN /\ tx' = ExecDelete(tx, argId)
            /\ table' = ExecDelete(tx, argId)
            /\ logs' = logs \cup {"deleted successfully."}
            /\ msgs' = msgs \cup {"Record deleted successfully!"}
            /\ armed' = (argId \in Ids(tx) /\ argId = MaxId(tx) /\ ExecDelete(tx, argId) # {})
            /\ pc' = "call_reset"
       ELSE /\ logs' = logs \cup {"Error deleting student record"}
            /\ msgs' = msgs \cup {"Error deleting student record"}
            /\ pc' = "finally"
            /\ UNCHANGED << tx, table, armed >>
    /\ UNCHANGED << tableExists, serial, seqNext, open, fn, caller, call, raised, result,
                    pre, prev >>

\* reset_id_sequence() called with delete_student_record's connection still open.
DeleteCallReset ==
    /\ fn = "delete" /\ pc = "call_reset"
    /\ fn' = "reset"
    /\ caller' = "delete"
    /\ pc' = "conn"
    /\ UNCHANGED << store, open, call, out, pre, prev, armed >>

\* ---------------------------------------------------------------- fetch_student_data

\* pd.read_sql, conn.close(), return df; no try around the read.
FetchRead ==
    /\ fn = "fetch" /\ pc = "exec"
    /\ IF tableExists
       THEN /\ result' = OrderById(tx)
            /\ open' = open - 1
            /\ logs' = logs \cup {"Fetched records from the database."}
            /\ raised' = raised
       ELSE /\ raised' = TRUE
            /\ UNCHANGED << result, open, logs >>
    /\ pc' = "ret"
    /\ UNCHANGED << store, fn, caller, call, msgs, pre, prev, armed >>

\* ---------------------------------------------------------------- finally / return

\* finally: cursor.close(); conn.close(). What was not committed is rolled back.
Finally ==
    /\ pc = "finally"
    /\ open' = open - 1
    /\ tx' = table
    /\ pc' = "ret"
    /\ UNCHANGED << tableExists, serial, seqNext, table, fn, caller, call, out, pre, prev, armed >>

Return ==
    /\ pc = "ret"
    /\ IF caller = "delete"
       THEN /\ fn' = "delete" /\ caller' = "none" /\ pc' = "finally"
            /\ UNCHANGED << call, pre >>
       ELSE IF caller = "main"
       THEN /\ fn' = "main" /\ caller' = "none" /\ pc' = "report"
            /\ UNCHANGED << call, pre >>
       ELSE /\ fn' = "none" /\ caller' = "none" /\ pc' = "idle"
            /\ df' = <<>> /\ i' = 0 /\ argId' = 0 /\ argRow' = NoRow
            /\ pre' = {}
    /\ UNCHANGED << store, open, out, prev, armed >>

\* ---------------------------------------------------------------- specification

\* The relation either does not exist yet, or exists from before with the serial id
\* that student_id_seq belongs to; no rows, no connection, nothing running.
Init ==
    /\ tableExists \in BOOLEAN
    /\ serial = tableExists
    /\ seqNext = 1
    /\ table = {}
    /\ tx = {}
    /\ open = 0
    /\ fn = "none"
    /\ pc = "idle"
    /\ caller = "none"
    /\ df = <<>>
    /\ i = 0
    /\ argId = 0
    /\ argRow = NoRow
    /\ msgs = {}
    /\ logs = {}
    /\ raised = FALSE
    /\ result = <<>>
    /\ pre = {}
    /\ prev = NoPrev
    /\ armed = FALSE

Next ==
    \/ CallCreate
    \/ CallReset
    \/ \E d \in Batches : CallUpsert(d)
    \/ \E idv \in 1..MaxSeq, c \in Candidates : CallUpdate(idv, c)
    \/ \E idv \in 1..MaxSeq : CallDelete(idv)
    \/ CallFetch
    \/ GetConnection
    \/ CreateExec
    \/ ResetExec
    \/ UpsertRow
    \/ UpsertCommit
    \/ MainReport
    \/ UpdateExec
    \/ DeleteExec
    \/ DeleteCallReset
    \/ FetchRead
    \/ Finally
    \/ Return

\* The storage is reachable: every failure comes from a statement.
Spec == Init /\ [][Next]_vars

NextFault == Next \/ GetConnectionFail

\* psycopg2.connect may fail as well.
SpecFault == Init /\ [][NextFault]_vars

\* ---------------------------------------------------------------- claims

CreatedByCode == tableExists /\ ~serial

Unique(t) ==
    \A r \in t, s \in t : r # s => r.email # s.email /\ r.phone_number # s.phone_number

Collides(t, idv, c) ==
    \E o \in t : o.id # idv /\ (o.email = c.email \/ o.phone_number = c.phone_number)

Committed == "Student data uploaded successfully." \in logs

\* C1: on a table created by create_student_table, each statement of
\* upsert_student_data for a candidate whose email no row has adds exactly one row,
\* with a non-null id no other row has and the candidate's name, age, class, email
\* and phone_number.
C1_InsertAddsRow ==
    [][ (fn = "upsert" /\ pc = "exec" /\ i <= Len(df) /\ CreatedByCode
            /\ df[i].email \notin Emails(tx))
        => \E r \in tx' : /\ r \notin tx
                          /\ tx' = tx \cup {r}
                          /\ r.id # Null
                          /\ r.id \notin Ids(tx)
                          /\ Fields(r) = df[i] ]_vars

\* C2: the claim's own example: after upserting {A,20,a@x.com,1} and then
\* {A2,21,a@x.com,2} into the student table, the table holds exactly one row for
\* a@x.com, with name A2, age 21, phone 2 and the id the first upsert gave it.
C2_ExampleOverwrites ==
    (fn = "upsert" /\ pc = "ret" /\ tableExists /\ prev.valid
        /\ prev.df = <<rowA>> /\ df = <<rowA2>> /\ Emails(pre) \subseteq {"a@x.com"})
    => \E r \in table : /\ table = {r}
                        /\ Fields(r) = rowA2
                        /\ r.id # Null
                        /\ r.id \in Ids(pre)

\* C3: when upsert_student_data is called with the batch the call before it was
\* given, the table after the second call holds the rows it held after the first
\* (same ids, emails, names, ages, classes, phone numbers) and no email twice.
C3_UpsertTwiceSameRows ==
    (fn = "upsert" /\ pc = "ret" /\ prev.valid /\ prev.df = df)
    => (table = pre /\ Cardinality(Emails(table)) = Cardinality(table))

C3_Witness ==
    /\ fn = "upsert" /\ pc = "ret" /\ prev.valid /\ prev.df = df
    /\ Committed
    /\ Len(df) = 2
    /\ Cardinality(table) = 2

\* C4: once delete_student_record has deleted the row with the maximum id and rows
\* remain, the next rows an upsert adds to the table start at (maximum id in the
\* table) + 1.
C4_NextIdAfterDelete ==
    [][ (armed /\ Ids(table') \ Ids(table) # {})
        => MinOf(Ids(table') \ Ids(table)) = MaxId(table) + 1 ]_vars

\* C5: update_student_record with an id no row has does not report success and
\* leaves the table as it was.
C5_UpdateNotFound ==
    (fn = "update" /\ pc = "ret" /\ tableExists /\ argId \notin Ids(pre))
    => ("Record updated successfully!" \notin msgs /\ table = pre)

\* C6: no two rows share an email or a phone_number, in the table and in the open
\* transaction; an update whose email or phone_number another row holds, and an
\* upsert with a failing statement, report no success of their own and leave the
\* table as it was.
C6_UniqueEmailPhone ==
    /\ Unique(table)
    /\ Unique(tx)
    /\ (fn = "update" /\ pc = "ret" /\ Collides(pre, argId, argRow) /\ argId \in Ids(pre))
          => (table = pre /\ "Record updated successfully!" \notin msgs)
    /\ (fn = "upsert" /\ pc = "ret" /\ "Error uploading student data" \in msgs)
          => (table = pre /\ ~Committed)

C6_Witness ==
    /\ fn = "update" /\ pc = "ret"
    /\ argId \in Ids(pre)
    /\ \E o \in pre : o.id # argId /\ o.phone_number = argRow.phone_number
    /\ "Error updating student record" \in msgs
    /\ Cardinality(table) = 2

\* C7: no operation holds more than one connection, and none is open between
\* operations.
C7_ConnectionsReleased ==
    /\ open <= 1
    /\ Idle => open = 0

\* C8: no exception leaves a storage operation; whatever fails, the operation
\* returns, and fetch_student_data returns the empty table.
C8_NoFailureEscapes ==
    /\ ~raised
    /\ (fn = "fetch" /\ pc = "ret" /\ ~tableExists) => result = <<>>

\* C9: the deletion of a row is not reported as successful while reset_id_sequence
\* has not yet run and returned.
C9_ReconcileBeforeReport ==
    ~ /\ "Record deleted successfully!" \in msgs
      /\ argId \in Ids(pre)
      /\ \/ fn = "delete" /\ pc = "call_reset"
         \/ fn = "reset" /\ caller = "delete"

\* C10: an upsert that did not commit leaves the table as it was before the call,
\* and the upload is reported as successful only when the commit happened.
C10_AllOrNothingReported ==
    /\ (fn = "upsert" /\ pc = "ret" /\ ~Committed) => table = pre
    /\ (tableExists /\ "Data uploaded successfully!" \in msgs) => Committed

====
